---- MODULE Spec2Model ----
(***************************************************************************)
(* EdaTodoFrontendPipelineStack (lib/eda-todo-frontend-pipeline-stack.ts). *)
(*                                                                         *)
(* The stack's constructor is modelled statement by statement: every       *)
(* construct it creates and every stage it adds to the pipeline is one     *)
(* action, taken in the order of the source.  Once the constructor is      *)
(* done, the declared pipeline is executed: an execution walks the stages  *)
(* the constructor declared, every action of a stage reading its input     *)
(* artifact, running its commands (a CodeBuild project) or its upload (an  *)
(* S3 deploy action), and writing its output artifacts.  What is executed, *)
(* in which order, with which commands, artifacts, bucket, environment and *)
(* policy comes from the declarations of the constructor; how an execution *)
(* proceeds from stage to stage is the orchestration service's, which the  *)
(* repository holds no code for.                                           *)
(***************************************************************************)
EXTENDS Integers, Sequences, FiniteSets, TLC

VARIABLES
    id,                     \* constructor argument: the stack id
    props,                  \* constructor argument: the optional StackProps
    pc,                     \* index of the next constructor statement
    resources,              \* resources of the stack's template
    outputs,                \* CfnOutputs of the stack's template
    bucketWebsite,          \* const bucketWebsite
    dist,                   \* const dist
    pipeline,               \* const pipeline
    invalidateBuildProject, \* const invalidateBuildProject
    nExec,                  \* pipeline executions started so far
    revision,               \* the commit the running execution checked out
    actionStatus,           \* action name -> status, in the running execution
    artifactStore,          \* artifact -> contents, in the running execution
    writers,                \* artifact -> the action names that wrote it
    observed,               \* action name -> contents read from its input
    cmdRun,                 \* action name -> commands run, with exit codes
    bucketContents,         \* bucket construct id -> contents served
    invalidations           \* invalidation requests of the running execution

ctorVars == <<id, props, pc, resources, outputs, bucketWebsite, dist, pipeline,
              invalidateBuildProject>>
execVars == <<nExec, revision, actionStatus, artifactStore, writers, observed,
              cmdRun, bucketContents, invalidations>>
vars == <<ctorVars, execVars>>

(***************************************************************************)
(* Bounds and input sets.                                                  *)
(***************************************************************************)
MaxExecutions == 2
MaxCommit == 2

\* "MyTestStack" is the id the repository's test instantiates the stack with.
Ids == {"MyTestStack", "EdaTodoFrontendPipelineStack"}
PropsSet == {"undefined", "env"}
Commits == 1..MaxCommit

Null == [constructId |-> "null"]
Empty == <<>>

(***************************************************************************)
(* Artifacts (lines 38-39).                                                *)
(***************************************************************************)
outputSources == "outputSources"
outputWebsite == "outputWebsite"
Artifacts == {outputSources, outputWebsite}

(***************************************************************************)
(* Constructs declared by the constructor.  A construct is a record of the *)
(* properties the source gives it; constructId is its id in the scope.     *)
(* The physical bucketName (line 17) plays no part in the wiring and is    *)
(* not carried.                                                            *)
(***************************************************************************)
BucketWebsite(i) ==
    [ constructId          |-> i \o "_website_bucket",
      removalPolicy        |-> "DESTROY",
      websiteIndexDocument |-> "index.html",
      websiteErrorDocument |-> "error.html",
      publicReadAccess     |-> TRUE ]

\* The identifier the deployed distribution is given: one per distribution.
DistributionId(constructId) == "id-of-" \o constructId

Dist(i, bucket) ==
    [ constructId     |-> i \o "_cloudfront_dist_for_website_bucket",
      defaultBehavior |->
          [ origin               |-> [kind |-> "S3Origin", bucket |-> bucket],
            viewerProtocolPolicy |-> "REDIRECT_TO_HTTPS",
            originRequestPolicy  |-> "ALL_VIEWER" ],
      distributionId  |-> DistributionId(i \o "_cloudfront_dist_for_website_bucket"),
      domainName      |-> "domain-of-" \o i \o "_cloudfront_dist_for_website_bucket" ]

Pipeline(i) ==
    [ constructId              |-> i \o "_pipeline",
      pipelineName             |-> i \o "_pipeline",
      crossAccountKeys         |-> FALSE,
      restartExecutionOnUpdate |-> TRUE,
      stages                   |-> <<>> ]

\* pipeline.addStage: the stage is appended after the stages added before.
AddStage(p, stage) == [p EXCEPT !.stages = Append(@, stage)]

CheckoutAction ==
    [ actionName |-> "Checkout",
      category   |-> "Source",
      owner      |-> "nabeelfarid",
      repo       |-> "eda-todo-frontend",
      oauthToken |-> "GITHUB_TOKEN_FOR_AWS",
      branch     |-> "master",
      inputs     |-> <<>>,
      outputs    |-> <<outputSources>>,
      runOrder   |-> 1 ]

SourceStage == [stageName |-> "Source", actions |-> <<CheckoutAction>>]

\* Mutant of InstallCommands: the dependencies are resolved with yarn
\* before yarn is installed.
InstallCommandsYarnBeforeInstall ==
    << <<"npm", "update", "-g">>,
       <<"npm", "install", "-g", "gatsby-cli">>,
       <<"yarn">>,
       <<"npm", "install", "-g", "yarn">> >>

\* A command is its argument vector.
InstallCommands ==
    << <<"npm", "update", "-g">>,
       <<"npm", "install", "-g", "gatsby-cli">>,
       <<"npm", "install", "-g", "yarn">>,
       <<"yarn">> >>

BuildCommands == << <<"gatsby", "build">> >>

BuildWebsiteBuildSpec ==
    [ version   |-> "0.2",
      phases    |->
          [ install |-> [ runtimeVersions |-> [nodejs |-> "latest"],
                          commands        |-> InstallCommands ],
            build   |-> [ commands |-> BuildCommands ] ],
      artifacts |-> [baseDirectory |-> "./public", files |-> <<"**/*">>] ]

BuildWebsiteProject(i) ==
    [ constructId          |-> i \o "_codebuild_project_build_website",
      projectName          |-> i \o "_codebuild_project_build_website",
      buildSpec            |-> BuildWebsiteBuildSpec,
      environment          |-> [buildImage |-> "STANDARD_5_0"],
      environmentVariables |-> <<>>,
      policy               |-> <<>> ]

\* Mutant of BuildWebsiteAction: the build takes its own output as input.
BuildWebsiteActionReadsOwnOutput(i) ==
    [ actionName |-> "Build-Gatsby-Website",
      category   |-> "Build",
      project    |-> BuildWebsiteProject(i),
      inputs     |-> <<outputWebsite>>,
      outputs    |-> <<outputWebsite>>,
      runOrder   |-> 1 ]

BuildWebsiteAction(i) ==
    [ actionName |-> "Build-Gatsby-Website",
      category   |-> "Build",
      project    |-> BuildWebsiteProject(i),
      inputs     |-> <<outputSources>>,
      outputs    |-> <<outputWebsite>>,
      runOrder   |-> 1 ]

BuildStage(i) == [stageName |-> "Build", actions |-> <<BuildWebsiteAction(i)>>]

\* Mutant of DeployWebsiteAction: the upload goes to another bucket than
\* the one it is given.
DeployWebsiteActionOtherBucket(bucket) ==
    [ actionName |-> "DeployWebsite",
      category   |-> "Deploy",
      inputs     |-> <<outputWebsite>>,
      outputs    |-> <<>>,
      bucket     |-> [bucket EXCEPT !.constructId = "artifacts_bucket"],
      runOrder   |-> 1 ]

DeployWebsiteAction(bucket) ==
    [ actionName |-> "DeployWebsite",
      category   |-> "Deploy",
      inputs     |-> <<outputWebsite>>,
      outputs    |-> <<>>,
      bucket     |-> bucket,
      runOrder   |-> 1 ]

DeployStage(bucket) ==
    [stageName |-> "Deploy", actions |-> <<DeployWebsiteAction(bucket)>>]

InvalidateCommands ==
    << <<"aws", "cloudfront", "create-invalidation",
         "--distribution-id", "${CLOUDFRONT_ID}", "--paths", "/*">> >>

\* Mutant of InvalidateEnvironmentVariables: the distribution's domain name
\* is passed where its identifier is expected.
InvalidateEnvironmentVariablesDomainName(d) ==
    [CLOUDFRONT_ID |-> [value |-> d.domainName]]

InvalidateEnvironmentVariables(d) ==
    [CLOUDFRONT_ID |-> [value |-> d.distributionId]]

InvalidateBuildProject(i, d) ==
    [ constructId          |-> i \o "_codebuild_project_cloudfront_cache_invalidation",
      projectName          |-> i \o "_codebuild_project_cloudfront_cache_invalidation",
      buildSpec            |->
          [ version |-> "0.2",
            phases  |-> [build |-> [commands |-> InvalidateCommands]] ],
      environmentVariables |-> InvalidateEnvironmentVariables(d),
      policy               |-> <<>> ]

\* Mutant of InvalidationPolicyActions: every action of the CDN is granted.
InvalidationPolicyActionsAnyCloudFront == { <<"cloudfront", "*">> }

\* An IAM action name is the sequence of its service and of the words of
\* its name: cloudfront:GetDistribution* is
\* <<"cloudfront", "Get", "Distribution", "*">>.
InvalidationPolicyActions ==
    { <<"cloudfront", "Create", "Invalidation">>,
      <<"cloudfront", "Get", "Distribution", "*">>,
      <<"cloudfront", "Get", "Invalidation">>,
      <<"cloudfront", "List", "Invalidations">>,
      <<"cloudfront", "List", "Distributions">> }

InvalidationPolicyStatement ==
    [ effect    |-> "ALLOW",
      resources |-> {"*"},
      actions   |-> InvalidationPolicyActions ]

\* project.addToRolePolicy
AddToRolePolicy(project, statement) ==
    [project EXCEPT !.policy = Append(@, statement)]

\* Mutant of InvalidateCacheAction: the action declares the artifact it
\* reads as its output.
InvalidateCacheActionWithOutput(project) ==
    [ actionName |-> "Invalidate-Cache",
      category   |-> "Build",
      project    |-> project,
      inputs     |-> <<outputWebsite>>,
      outputs    |-> <<outputWebsite>>,
      runOrder   |-> 1 ]

InvalidateCacheAction(project) ==
    [ actionName |-> "Invalidate-Cache",
      category   |-> "Build",
      project    |-> project,
      inputs     |-> <<outputWebsite>>,
      outputs    |-> <<>>,
      runOrder   |-> 1 ]

CacheInvalidationStage(project) ==
    [ stageName |-> "CacheInvalidation",
      actions   |-> <<InvalidateCacheAction(project)>> ]

Resource(type, construct) == [type |-> type, constructId |-> construct.constructId]

(***************************************************************************)
(* The constructor, statement by statement, in the order of the source.    *)
(***************************************************************************)
\* Mutant of Statements: the Deploy stage is added before the Build stage.
StatementsDeployBeforeBuild ==
    << "bucketWebsite", "dist", "pipeline", "stageSource", "stageDeploy",
       "stageBuild", "invalidateBuildProject", "addToRolePolicy",
       "stageCacheInvalidation", "outputBucketWebsiteURL",
       "outputCloudFrontURL" >>

\* Mutant of Statements: the cache-invalidation block comes before the
\* Deploy stage is added.
StatementsInvalidationBeforeDeploy ==
    << "bucketWebsite", "dist", "pipeline", "stageSource", "stageBuild",
       "invalidateBuildProject", "addToRolePolicy", "stageCacheInvalidation",
       "stageDeploy", "outputBucketWebsiteURL", "outputCloudFrontURL" >>

Statements ==
    << "bucketWebsite", "dist", "pipeline", "stageSource", "stageBuild",
       "stageDeploy", "invalidateBuildProject", "addToRolePolicy",
       "stageCacheInvalidation", "outputBucketWebsiteURL",
       "outputCloudFrontURL" >>

At(statement) == pc <= Len(Statements) /\ Statements[pc] = statement
Done == pc > Len(Statements)

\* super(scope, id, props): the stack exists and holds nothing yet.
Init ==
    /\ id \in Ids
    /\ props \in PropsSet
    /\ pc = 1
    /\ resources = {}
    /\ outputs = {}
    /\ bucketWebsite = Null
    /\ dist = Null
    /\ pipeline = Null
    /\ invalidateBuildProject = Null
    /\ nExec = 0
    /\ revision = 0
    /\ actionStatus = <<>>
    /\ artifactStore = [a \in Artifacts |-> Empty]
    /\ writers = [a \in Artifacts |-> <<>>]
    /\ observed = <<>>
    /\ cmdRun = <<>>
    /\ bucketContents = <<>>
    /\ invalidations = <<>>

NewBucketWebsite ==
    /\ At("bucketWebsite")
    /\ bucketWebsite' = BucketWebsite(id)
    /\ resources' = resources \cup {Resource("AWS::S3::Bucket", BucketWebsite(id))}
    /\ pc' = pc + 1
    /\ UNCHANGED <<id, props, outputs, dist, pipeline, invalidateBuildProject>>
    /\ UNCHANGED execVars

NewDist ==
    /\ At("dist")
    /\ dist' = Dist(id, bucketWebsite)
    /\ resources' = resources \cup
           {Resource("AWS::CloudFront::Distribution", Dist(id, bucketWebsite))}
    /\ pc' = pc + 1
    /\ UNCHANGED <<id, props, outputs, bucketWebsite, pipeline, invalidateBuildProject>>
    /\ UNCHANGED execVars

NewPipeline ==
    /\ At("pipeline")
    /\ pipeline' = Pipeline(id)
    /\ resources' = resources \cup
           {Resource("AWS::CodePipeline::Pipeline", Pipeline(id))}
    /\ pc' = pc + 1
    /\ UNCHANGED <<id, props, outputs, bucketWebsite, dist, invalidateBuildProject>>
    /\ UNCHANGED execVars

AddStageSource ==
    /\ At("stageSource")
    /\ pipeline' = AddStage(pipeline, SourceStage)
    /\ pc' = pc + 1
    /\ UNCHANGED <<id, props, resources, outputs, bucketWebsite, dist,
                   invalidateBuildProject>>
    /\ UNCHANGED execVars

AddStageBuild ==
    /\ At("stageBuild")
    /\ pipeline' = AddStage(pipeline, BuildStage(id))
    /\ resources' = resources \cup
           {Resource("AWS::CodeBuild::Project", BuildWebsiteProject(id))}
    /\ pc' = pc + 1
    /\ UNCHANGED <<id, props, outputs, bucketWebsite, dist, invalidateBuildProject>>
    /\ UNCHANGED execVars

AddStageDeploy ==
    /\ At("stageDeploy")
    /\ pipeline' = AddStage(pipeline, DeployStage(bucketWebsite))
    /\ pc' = pc + 1
    /\ UNCHANGED <<id, props, resources, outputs, bucketWebsite, dist,
                   invalidateBuildProject>>
    /\ UNCHANGED execVars

NewInvalidateBuildProject ==
    /\ At("invalidateBuildProject")
    /\ invalidateBuildProject' = InvalidateBuildProject(id, dist)
    /\ resources' = resources \cup
           {Resource("AWS::CodeBuild::Project", InvalidateBuildProject(id, dist))}
    /\ pc' = pc + 1
    /\ UNCHANGED <<id, props, outputs, bucketWebsite, dist, pipeline>>
    /\ UNCHANGED execVars

InvalidateAddToRolePolicy ==
    /\ At("addToRolePolicy")
    /\ invalidateBuildProject' =
           AddToRolePolicy(invalidateBuildProject, InvalidationPolicyStatement)
    /\ pc' = pc + 1
    /\ UNCHANGED <<id, props, resources, outputs, bucketWebsite, dist, pipeline>>
    /\ UNCHANGED execVars

AddStageCacheInvalidation ==
    /\ At("stageCacheInvalidation")
    /\ pipeline' = AddStage(pipeline, CacheInvalidationStage(invalidateBuildProject))
    /\ pc' = pc + 1
    /\ UNCHANGED <<id, props, resources, outputs, bucketWebsite, dist,
                   invalidateBuildProject>>
    /\ UNCHANGED execVars

OutputBucketWebsiteURL ==
    /\ At("outputBucketWebsiteURL")
    /\ outputs' = outputs \cup
           { [ name        |-> "BucketWebsiteURL",
               value       |-> "website-url-of-" \o bucketWebsite.constructId,
               description |-> "Bucket Website URL" ] }
    /\ pc' = pc + 1
    /\ UNCHANGED <<id, props, resources, bucketWebsite, dist, pipeline,
                   invalidateBuildProject>>
    /\ UNCHANGED execVars

OutputCloudFrontURL ==
    /\ At("outputCloudFrontURL")
    /\ outputs' = outputs \cup
           { [ name        |-> "CloudFrontURL",
               value       |-> dist.domainName,
               description |-> "CloudFront URL" ] }
    /\ pc' = pc + 1
    /\ UNCHANGED <<id, props, resources, bucketWebsite, dist, pipeline,
                   invalidateBuildProject>>
    /\ UNCHANGED execVars

Constructor ==
    \/ NewBucketWebsite
    \/ NewDist
    \/ NewPipeline
    \/ AddStageSource
    \/ AddStageBuild
    \/ AddStageDeploy
    \/ NewInvalidateBuildProject
    \/ InvalidateAddToRolePolicy
    \/ AddStageCacheInvalidation
    \/ OutputBucketWebsiteURL
    \/ OutputCloudFrontURL

(***************************************************************************)
(* What the declarations mean when the pipeline runs.                      *)
(***************************************************************************)
Range(seq) == {seq[k] : k \in DOMAIN seq}

Positions ==
    UNION { {<<i, j>> : j \in DOMAIN pipeline.stages[i].actions} :
            i \in DOMAIN pipeline.stages }
ActionAt(p) == pipeline.stages[p[1]].actions[p[2]]
ActionNames == {ActionAt(p).actionName : p \in Positions}
Action(n) == ActionAt(CHOOSE p \in Positions : ActionAt(p).actionName = n)
StageActionNames(i) == {a.actionName : a \in Range(pipeline.stages[i].actions)}
StageNames == {pipeline.stages[i].stageName : i \in DOMAIN pipeline.stages}
StageIndex(name) ==
    CHOOSE i \in DOMAIN pipeline.stages : pipeline.stages[i].stageName = name

\* The commands of a build project, in the order the build service runs
\* the phases of a buildspec: install, then build.
Commands(project) ==
    LET phases == project.buildSpec.phases
    IN  (IF "install" \in DOMAIN phases THEN phases.install.commands ELSE <<>>)
        \o (IF "build" \in DOMAIN phases THEN phases.build.commands ELSE <<>>)

\* The shell replaces ${NAME} by the value of the environment variable NAME.
Expand(argv, env) ==
    [ k \in DOMAIN argv |->
        IF \E v \in DOMAIN env : argv[k] = "${" \o v \o "}"
        THEN env[CHOOSE v \in DOMAIN env : argv[k] = "${" \o v \o "}"].value
        ELSE argv[k] ]

\* The value that follows an option of a command line.
Option(argv, name) ==
    argv[(CHOOSE k \in DOMAIN argv : argv[k] = name) + 1]

IsCreateInvalidation(argv) ==
    /\ Len(argv) >= 3
    /\ argv[1] = "aws" /\ argv[2] = "cloudfront" /\ argv[3] = "create-invalidation"

InvalidationRequest(argv) ==
    [ distributionId |-> Option(argv, "--distribution-id"),
      paths          |-> Option(argv, "--paths") ]

\* IAM's matching of an action name against a pattern: * stands for any
\* run of characters, here of words.
RECURSIVE Glob(_, _)
Glob(pattern, name) ==
    IF pattern = <<>> THEN name = <<>>
    ELSE IF Head(pattern) = "*"
         THEN Glob(Tail(pattern), name) \/ (name # <<>> /\ Glob(pattern, Tail(name)))
         ELSE name # <<>> /\ Head(name) = Head(pattern)
                          /\ Glob(Tail(pattern), Tail(name))

\* Whether the statements added to a project's role permit an action.
Allowed(policy, action) ==
    \E k \in DOMAIN policy :
        /\ policy[k].effect = "ALLOW"
        /\ "*" \in policy[k].resources
        /\ \E pattern \in policy[k].actions : Glob(pattern, action)

CreateInvalidation == <<"cloudfront", "Create", "Invalidation">>

\* Contents of the artifacts: the sources of a revision, and the site built
\* from sources and collected from the buildspec's base directory.
Sources(a, rev) == <<"sources", a.owner, a.repo, a.branch, rev>>
Built(src, project) ==
    <<"site", project.buildSpec.artifacts.baseDirectory, src>>

BucketContents(b) ==
    IF b.constructId \in DOMAIN bucketContents
    THEN bucketContents[b.constructId] ELSE Empty
Upload(b, contents) ==
    [ x \in DOMAIN bucketContents \cup {b.constructId} |->
        IF x = b.constructId THEN contents ELSE bucketContents[x] ]
\* What the distribution fetches from its origin.
Served(d) == BucketContents(d.defaultBehavior.origin.bucket)

ReadInput(a) == IF a.inputs = <<>> THEN Empty ELSE artifactStore[a.inputs[1]]

StageStatus(i) ==
    LET s == {actionStatus[n] : n \in StageActionNames(i)}
    IN  IF "Failed" \in s THEN "Failed"
        ELSE IF s = {"Succeeded"} THEN "Succeeded"
        ELSE IF s = {"NotStarted"} THEN "NotStarted"
        ELSE "InProgress"

ExecutionStatus ==
    IF nExec = 0 THEN "None"
    ELSE IF \E n \in DOMAIN actionStatus : actionStatus[n] = "Failed" THEN "Failed"
    ELSE IF \A n \in DOMAIN actionStatus : actionStatus[n] = "Succeeded"
         THEN "Succeeded"
    ELSE "InProgress"

\* Mutant of CanStartStage: a stage also starts after a failed stage.
CanStartStageAfterFailure(i) ==
    /\ nExec > 0
    /\ StageStatus(i) = "NotStarted"
    /\ \A k \in 1..(i - 1) : StageStatus(k) \in {"Succeeded", "Failed"}

\* A stage starts when the execution is under way and every stage declared
\* before it has succeeded.
CanStartStage(i) ==
    /\ ExecutionStatus = "InProgress"
    /\ StageStatus(i) = "NotStarted"
    /\ \A k \in 1..(i - 1) : StageStatus(k) = "Succeeded"

\* A push to the branch (or the deployment of the pipeline) starts an
\* execution, with fresh artifacts.
StartExecution(rev) ==
    /\ Done
    /\ nExec < MaxExecutions
    /\ ExecutionStatus # "InProgress"
    /\ nExec' = nExec + 1
    /\ revision' = rev
    /\ actionStatus' = [n \in ActionNames |-> "NotStarted"]
    /\ artifactStore' = [a \in Artifacts |-> Empty]
    /\ writers' = [a \in Artifacts |-> <<>>]
    /\ observed' = [n \in ActionNames |-> Empty]
    /\ cmdRun' = [n \in ActionNames |-> <<>>]
    /\ invalidations' = <<>>
    /\ UNCHANGED bucketContents
    /\ UNCHANGED ctorVars

StartStage(i) ==
    /\ CanStartStage(i)
    /\ actionStatus' = [ n \in DOMAIN actionStatus |->
                           IF n \in StageActionNames(i) THEN "InProgress"
                           ELSE actionStatus[n] ]
    /\ observed' = [ n \in DOMAIN observed |->
                       IF n \in StageActionNames(i) THEN ReadInput(Action(n))
                       ELSE observed[n] ]
    /\ UNCHANGED <<nExec, revision, artifactStore, writers, cmdRun,
                   bucketContents, invalidations>>
    /\ UNCHANGED ctorVars

InProgress(n, category) ==
    /\ actionStatus[n] = "InProgress"
    /\ Action(n).category = category

\* An action that succeeds populates the artifacts it declares as outputs.
WriteOutputs(n, contents) ==
    /\ artifactStore' = [ x \in Artifacts |->
                            IF x \in Range(Action(n).outputs) THEN contents
                            ELSE artifactStore[x] ]
    /\ writers' = [ x \in Artifacts |->
                      IF x \in Range(Action(n).outputs) THEN Append(writers[x], n)
                      ELSE writers[x] ]

CheckoutSucceeds(n) ==
    /\ InProgress(n, "Source")
    /\ WriteOutputs(n, Sources(Action(n), revision))
    /\ actionStatus' = [actionStatus EXCEPT ![n] = "Succeeded"]
    /\ UNCHANGED <<nExec, revision, observed, cmdRun, bucketContents, invalidations>>
    /\ UNCHANGED ctorVars

\* Credential resolution, checkout or upload fails.
ActionFails(n) ==
    /\ InProgress(n, "Source") \/ InProgress(n, "Deploy")
    /\ actionStatus' = [actionStatus EXCEPT ![n] = "Failed"]
    /\ UNCHANGED <<nExec, revision, artifactStore, writers, observed, cmdRun,
                   bucketContents, invalidations>>
    /\ UNCHANGED ctorVars

ExitCodes == {0, 1}

\* The build service runs the next command of the project; a command that
\* exits non-zero fails the build, and no command runs after it.
RunCommand(n, exit) ==
    /\ InProgress(n, "Build")
    /\ Len(cmdRun[n]) < Len(Commands(Action(n).project))
    /\ LET project == Action(n).project
           command == Commands(project)[Len(cmdRun[n]) + 1]
           argv    == Expand(command, project.environmentVariables)
       IN  /\ cmdRun' = [cmdRun EXCEPT
                           ![n] = Append(@, [command |-> command, exit |-> exit])]
           /\ IF IsCreateInvalidation(argv) /\ exit = 0
              THEN /\ Allowed(project.policy, CreateInvalidation)
                   /\ invalidations' = Append(invalidations, InvalidationRequest(argv))
              ELSE UNCHANGED invalidations
    /\ actionStatus' = IF exit = 0 THEN actionStatus
                       ELSE [actionStatus EXCEPT ![n] = "Failed"]
    /\ UNCHANGED <<nExec, revision, artifactStore, writers, observed, bucketContents>>
    /\ UNCHANGED ctorVars

\* Every command has exited 0: the build's files become its output artifacts.
BuildSucceeds(n) ==
    /\ InProgress(n, "Build")
    /\ Len(cmdRun[n]) = Len(Commands(Action(n).project))
    /\ IF Action(n).outputs = <<>>
       THEN UNCHANGED <<artifactStore, writers>>
       ELSE WriteOutputs(n, Built(observed[n], Action(n).project))
    /\ actionStatus' = [actionStatus EXCEPT ![n] = "Succeeded"]
    /\ UNCHANGED <<nExec, revision, observed, cmdRun, bucketContents, invalidations>>
    /\ UNCHANGED ctorVars

\* The files of the input artifact are uploaded to the action's bucket.
DeploySucceeds(n) ==
    /\ InProgress(n, "Deploy")
    /\ bucketContents' = Upload(Action(n).bucket, observed[n])
    /\ actionStatus' = [actionStatus EXCEPT ![n] = "Succeeded"]
    /\ UNCHANGED <<nExec, revision, artifactStore, writers, observed, cmdRun,
                   invalidations>>
    /\ UNCHANGED ctorVars

Next ==
    \/ Constructor
    \/ \E rev \in Commits : StartExecution(rev)
    \/ \E i \in 1..Len(Statements) : Done /\ i \in DOMAIN pipeline.stages /\ StartStage(i)
    \/ \E n \in DOMAIN actionStatus : CheckoutSucceeds(n)
    \/ \E n \in DOMAIN actionStatus : ActionFails(n)
    \/ \E n \in DOMAIN actionStatus, exit \in ExitCodes : RunCommand(n, exit)
    \/ \E n \in DOMAIN actionStatus : BuildSucceeds(n)
    \/ \E n \in DOMAIN actionStatus : DeploySucceeds(n)

Spec == Init /\ [][Next]_vars

TypeOK ==
    /\ id \in Ids
    /\ pc \in 1..(Len(Statements) + 1)
    /\ nExec \in 0..MaxExecutions

(***************************************************************************)
(* Properties.                                                             *)
(***************************************************************************)
Started(stage) == nExec > 0 /\ StageStatus(StageIndex(stage)) # "NotStarted"
Succeeded(stage) == nExec > 0 /\ StageStatus(StageIndex(stage)) = "Succeeded"
Producers(art) == {p \in Positions : art \in Range(ActionAt(p).outputs)}

\* C1: in every execution, Build is not started unless Source has
\* succeeded, Deploy not unless Build has succeeded, CacheInvalidation not
\* unless Deploy has succeeded; Invalidate-Cache is not started unless
\* DeployWebsite has succeeded.
C1_StageOrdering ==
    nExec > 0 =>
        /\ Started("Build") => Succeeded("Source")
        /\ Started("Deploy") => Succeeded("Build")
        /\ Started("CacheInvalidation") => Succeeded("Deploy")
        /\ actionStatus["Invalidate-Cache"] # "NotStarted"
               => actionStatus["DeployWebsite"] = "Succeeded"

C1_Witness ==
    /\ nExec > 0
    /\ actionStatus["Invalidate-Cache"] = "InProgress"
    /\ actionStatus["DeployWebsite"] = "Succeeded"

\* C2: once an action has failed, the execution is failed at that stage:
\* every later stage is still not started, and as long as the execution
\* lasts nothing changes any more -- no stage starts, the failed action runs
\* no further command (no retry), and the bucket, the artifacts and the
\* invalidations stay as they were (no rollback).
C2_FailureHalts ==
    /\ [](nExec > 0 =>
            \A i \in DOMAIN pipeline.stages :
                StageStatus(i) = "Failed" =>
                    /\ ExecutionStatus = "Failed"
                    /\ \A k \in DOMAIN pipeline.stages :
                          /\ k < i => StageStatus(k) = "Succeeded"
                          /\ k > i => StageStatus(k) = "NotStarted")
    /\ [][ (ExecutionStatus = "Failed" /\ nExec' = nExec) =>
              /\ actionStatus' = actionStatus
              /\ cmdRun' = cmdRun
              /\ bucketContents' = bucketContents
              /\ artifactStore' = artifactStore
              /\ invalidations' = invalidations ]_vars

C2_Witness ==
    /\ nExec > 0
    /\ actionStatus["DeployWebsite"] = "Succeeded"
    /\ actionStatus["Invalidate-Cache"] = "Failed"
    /\ BucketContents(bucketWebsite) = artifactStore[outputWebsite]
    /\ BucketContents(bucketWebsite) # Empty

\* C3: for every id and props, the constructed pipeline has exactly the
\* four stages Source, Build, Deploy, CacheInvalidation, in this order, and
\* every stage holds exactly one action.
C3_FourStages ==
    Done =>
        /\ [i \in DOMAIN pipeline.stages |-> pipeline.stages[i].stageName]
               = <<"Source", "Build", "Deploy", "CacheInvalidation">>
        /\ \A i \in DOMAIN pipeline.stages : Len(pipeline.stages[i].actions) = 1

C3_Witness ==
    /\ Done
    /\ props = "env"
    /\ Len(pipeline.stages) = 4

\* C4: every input artifact of an action is an output of an action of a
\* strictly earlier stage: outputSources for Build-Gatsby-Website,
\* outputWebsite for DeployWebsite and for Invalidate-Cache.
C4_InputsProducedEarlier ==
    Done =>
        /\ Action("Build-Gatsby-Website").inputs = <<outputSources>>
        /\ Action("DeployWebsite").inputs = <<outputWebsite>>
        /\ Action("Invalidate-Cache").inputs = <<outputWebsite>>
        /\ \A p \in Positions : \A art \in Range(ActionAt(p).inputs) :
              /\ Producers(art) # {}
              /\ \A q \in Producers(art) : q[1] < p[1]

C4_Witness ==
    /\ Done
    /\ \E p \in Positions :
          /\ ActionAt(p).actionName = "Invalidate-Cache"
          /\ \E q \in Producers(outputWebsite) : q[1] + 2 = p[1]

\* C5: the stack instantiated with a scope and an id only has a template
\* whose Resources are empty.
C5_EmptyStack ==
    (Done /\ id = "MyTestStack" /\ props = "undefined") => resources = {}

\* C6: the bucket DeployWebsite uploads to is the bucket the distribution
\* has as its origin, and what a successful DeployWebsite published is what
\* the distribution gets from its origin.
C6_DeployBucketIsOrigin ==
    Done =>
        /\ Action("DeployWebsite").bucket = dist.defaultBehavior.origin.bucket
        /\ Action("DeployWebsite").bucket = bucketWebsite
        /\ (nExec > 0 /\ actionStatus["DeployWebsite"] = "Succeeded")
               => /\ Served(dist) = artifactStore[outputWebsite]
                  /\ Served(dist) # Empty

C6_Witness ==
    /\ nExec > 0
    /\ actionStatus["DeployWebsite"] = "Succeeded"
    /\ Served(dist) = Built(Sources(CheckoutAction, MaxCommit), BuildWebsiteProject(id))

\* C7: CLOUDFRONT_ID of the cache-invalidation project is the identifier of
\* the distribution whose origin is the website bucket; an execution issues
\* invalidations against that distribution only, and a successful
\* Invalidate-Cache has issued exactly one, for "/*".
C7_OneInvalidation ==
    Done =>
        /\ dist.defaultBehavior.origin.bucket = bucketWebsite
        /\ dist.distributionId = DistributionId(dist.constructId)
        /\ Action("Invalidate-Cache").project = invalidateBuildProject
        /\ invalidateBuildProject.environmentVariables.CLOUDFRONT_ID.value
               = dist.distributionId
        /\ \A k \in DOMAIN invalidations :
               invalidations[k] = [distributionId |-> dist.distributionId, paths |-> "/*"]
        /\ Len(invalidations) <= 1
        /\ (nExec > 0 /\ actionStatus["Invalidate-Cache"] = "Succeeded")
               => Len(invalidations) = 1

C7_Witness ==
    /\ nExec > 0
    /\ actionStatus["Invalidate-Cache"] = "Succeeded"
    /\ Len(invalidations) = 1

ExpectedBuildCommands ==
    << <<"npm", "update", "-g">>,
       <<"npm", "install", "-g", "gatsby-cli">>,
       <<"npm", "install", "-g", "yarn">>,
       <<"yarn">>,
       <<"gatsby", "build">> >>

\* C8: the commands Build-Gatsby-Website has run are an initial part of
\* npm update -g, npm install -g gatsby-cli, npm install -g yarn, yarn,
\* gatsby build; every command before the last one run has exited 0 (so
\* gatsby build runs only after the four others succeeded); a command that
\* exited non-zero has failed the action; the action succeeds only after
\* all five exited 0.
C8_BuildCommandOrder ==
    nExec > 0 =>
        LET run == cmdRun["Build-Gatsby-Website"]
        IN  /\ Len(run) <= Len(ExpectedBuildCommands)
            /\ \A k \in DOMAIN run :
                  /\ run[k].command = ExpectedBuildCommands[k]
                  /\ k < Len(run) => run[k].exit = 0
                  /\ run[k].exit # 0 => actionStatus["Build-Gatsby-Website"] = "Failed"
            /\ actionStatus["Build-Gatsby-Website"] = "Succeeded"
                  => /\ Len(run) = Len(ExpectedBuildCommands)
                     /\ \A k \in DOMAIN run : run[k].exit = 0
            /\ actionStatus["Build-Gatsby-Website"] = "Failed"
                  => /\ Len(run) > 0
                     /\ run[Len(run)].exit # 0

C8_Witness ==
    /\ nExec > 0
    /\ Len(cmdRun["Build-Gatsby-Website"]) = 5
    /\ cmdRun["Build-Gatsby-Website"][5].command = <<"gatsby", "build">>
    /\ cmdRun["Build-Gatsby-Website"][4].exit = 0

\* Actions of the CDN's API.
CloudFrontActions ==
    { <<"cloudfront", "Create", "Invalidation">>,
      <<"cloudfront", "Get", "Distribution">>,
      <<"cloudfront", "Get", "Distribution", "Config">>,
      <<"cloudfront", "Get", "Invalidation">>,
      <<"cloudfront", "List", "Invalidations">>,
      <<"cloudfront", "List", "Distributions">>,
      <<"cloudfront", "Create", "Distribution">>,
      <<"cloudfront", "Update", "Distribution">>,
      <<"cloudfront", "Delete", "Distribution">>,
      <<"cloudfront", "Get", "Cache", "Policy">>,
      <<"cloudfront", "List", "Distributions", "By", "Web", "ACL", "Id">> }

FiveActions ==
    { <<"cloudfront", "Create", "Invalidation">>,
      <<"cloudfront", "Get", "Distribution">>,
      <<"cloudfront", "Get", "Invalidation">>,
      <<"cloudfront", "List", "Invalidations">>,
      <<"cloudfront", "List", "Distributions">> }

PolicyAttached ==
    /\ "policy" \in DOMAIN invalidateBuildProject
    /\ Len(invalidateBuildProject.policy) > 0

Permitted == {a \in CloudFrontActions : Allowed(invalidateBuildProject.policy, a)}

\* C9 as stated: the CDN actions the statement permits are exactly
\* create-invalidation, get-distribution, get-invalidation,
\* list-invalidations and list-distributions.
C9_ExactlyFive == PolicyAttached => Permitted = FiveActions

\* C9, amended: the statement permits, on all resources, the five actions
\* and every other CDN action whose name begins with GetDistribution (such
\* as GetDistributionConfig), and no CDN action besides.
C9_FiveAndGetDistributionPrefix ==
    PolicyAttached =>
        /\ Len(invalidateBuildProject.policy) = 1
        /\ invalidateBuildProject.policy[1].effect = "ALLOW"
        /\ invalidateBuildProject.policy[1].resources = {"*"}
        /\ FiveActions \subseteq Permitted
        /\ \A a \in CloudFrontActions :
              a \in Permitted <=>
                  \/ a \in FiveActions
                  \/ /\ Len(a) >= 3
                     /\ SubSeq(a, 1, 3) = <<"cloudfront", "Get", "Distribution">>

C9_Witness ==
    /\ PolicyAttached
    /\ <<"cloudfront", "Get", "Distribution", "Config">> \in Permitted
    /\ <<"cloudfront", "Update", "Distribution">> \notin Permitted

\* C10: each artifact is an output of exactly one action and of none of the
\* actions that take it as input; within an execution it is written at most
\* once, holds contents exactly when its producer has succeeded, and every
\* started action that takes it as input has read the contents it holds.
C10_ArtifactWrittenOnce ==
    Done =>
        /\ \A art \in Artifacts : Cardinality(Producers(art)) = 1
        /\ \A p \in Positions :
              Range(ActionAt(p).inputs) \cap Range(ActionAt(p).outputs) = {}
        /\ nExec > 0 =>
              /\ \A art \in Artifacts :
                    /\ Len(writers[art]) <= 1
                    /\ \A p \in Producers(art) :
                          /\ artifactStore[art] # Empty
                                <=> actionStatus[ActionAt(p).actionName] = "Succeeded"
                          /\ artifactStore[art] # Empty
                                => writers[art] = <<ActionAt(p).actionName>>
              /\ \A n \in DOMAIN actionStatus :
                    (actionStatus[n] # "NotStarted" /\ Action(n).inputs # <<>>)
                        => /\ observed[n] = artifactStore[Action(n).inputs[1]]
                           /\ observed[n] # Empty
              /\ actionStatus["Invalidate-Cache"] # "NotStarted"
                    => observed["Invalidate-Cache"] = observed["DeployWebsite"]

C10_Witness ==
    /\ nExec = MaxExecutions
    /\ actionStatus["Invalidate-Cache"] = "InProgress"
    /\ observed["Invalidate-Cache"] = observed["DeployWebsite"]
    /\ observed["DeployWebsite"] = artifactStore[outputWebsite]
    /\ artifactStore[outputWebsite] # Empty

====
